---- MODULE Spec2Model ----
(***************************************************************************)
(* Model of P1Mapper (src/dbus_mapper.py): the bridge between the source   *)
(* MQTT broker and the Victron broker.                                     *)
(*                                                                         *)
(* Threads: the callback contexts of the source client (on_message,        *)
(* on_connect_source, on_disconnect_source), the callback thread of the    *)
(* Victron client (on_connect_victron, on_disconnect_victron), the         *)
(* TimeoutMonitor thread and the main thread (signal handler / shutdown).  *)
(* One step is one source line that touches shared state; statements that  *)
(* touch only locals are folded into the step that follows them.           *)
(***************************************************************************)
EXTENDS Integers, Sequences, FiniteSets, TLC

\* ---------------------------------------------------------------- bounds
MaxIndex == 1          \* no new on_message once index has reached it
MaxLongIndex == 257    \* the same, in the long run of SpecLong
MaxTime == 31          \* the clock stops here

\* ------------------------------------------------------- program constants
MESSAGE_TIMEOUT == 30
UpdateIndexModulus == 256

Invocations == {1, 2}      \* callback contexts of the source client
Signals == {"SIGINT", "SIGTERM"}   \* each delivered at most once
TimeSteps == {MESSAGE_TIMEOUT, MESSAGE_TIMEOUT + 1}
NoTime == -1               \* last_message_time = None
Free == 0                  \* processing_lock not held

\* ---------------------------------------------------- mapper.json contents
Num(n) == [t |-> "num", n |-> n, s |-> ""]
Str(s) == [t |-> "str", n |-> 0, s |-> s]

RulePower == [name |-> "power_w", path |-> "/Ac/Power", valueType |-> "float",
              multiplier |-> 2, unit |-> "W", digits |-> 1]
RuleSerial == [name |-> "serial", path |-> "/Serial", valueType |-> "string"]
RuleNoPath == [name |-> "gas"]
RuleScaledSerial == [name |-> "serial", path |-> "/Serial2", valueType |-> "string",
                     multiplier |-> 2]
RuleNoType == [name |-> "power_w", path |-> "/Ac/Raw"]

\* a rule that writes a meter field to the path of the status record
RuleLink == [name |-> "link", path |-> "/Connected", valueType |-> "integer"]

DefaultMapping == <<RulePower, RuleNoPath, RuleSerial>>
Tables == {<<>>, <<RulePower>>, <<RuleNoPath, RuleSerial>>, DefaultMapping,
           <<RuleSerial, RulePower>>, <<RuleScaledSerial, RulePower>>,
           <<RulePower, RuleNoType>>, <<RuleLink, RulePower>>}

\* decoded payloads (meter_data) and the two payloads that do not decode
MeterBoth == [power_w |-> Num(3), serial |-> Str("x")]
MeterPower == [power_w |-> Num(3)]
MeterText == [power_w |-> Str("x")]
MeterEmpty == [unknown |-> Num(1)]
MeterConnected == [power_w |-> Num(3), link |-> Num(1)]
MeterRecords == {MeterBoth, MeterPower, MeterText, MeterEmpty, MeterConnected}
\* message.payload: bytes that are not UTF-8, text that is not JSON, or a record
Payloads == {[kind |-> "bad_utf8"], [kind |-> "bad_json"]}
            \cup {[kind |-> "json", meter_data |-> r] : r \in {MeterBoth, MeterText}}
AllPayloads == {[kind |-> "bad_json"]}
               \cup {[kind |-> "json", meter_data |-> r] : r \in MeterRecords}
Topics == {"MQTT_TOPIC", "other"}
PublishResults == {"ok", "fail", "raise"}

\* ------------------------------------------------------------ field mapper
\* value * field["multiplier"]: a number is scaled; a str times a float
\* multiplier raises TypeError
Multiply(value, m) ==
    IF value.t = "num" THEN Num(value.n * m) ELSE [t |-> "raise", n |-> 0, s |-> ""]

\* the value one rule reads from the record, scaled when the rule says so
FieldValue(field, meter_data) ==
    IF "multiplier" \in DOMAIN field
    THEN Multiply(meter_data[field.name], field.multiplier)
    ELSE meter_data[field.name]

\* a rule is skipped when it lacks path or name, or the record lacks its name
Skipped(field, meter_data) ==
    \/ "path" \notin DOMAIN field
    \/ "name" \notin DOMAIN field
    \/ field.name \notin DOMAIN meter_data

\* the rule makes the loop raise: multiplier on a non-number, or no valueType
Raises(field, meter_data) ==
    /\ ~Skipped(field, meter_data)
    /\ \/ FieldValue(field, meter_data).t = "raise"
       \/ "valueType" \notin DOMAIN field

Optional(field, key) ==
    IF key \in DOMAIN field THEN field[key] ELSE "absent"

dbus_record(field, meter_data) ==
    [path |-> field.path,
     value |-> FieldValue(field, meter_data),
     valueType |-> field.valueType,
     writeable |-> FALSE,
     unit |-> Optional(field, "unit"),
     digits |-> Optional(field, "digits")]

\* faulty variant: each record is put in front of the ones built before it
RECURSIVE MapFieldsReversed(_, _)
MapFieldsReversed(fields, meter_data) ==
    IF fields = <<>> THEN <<>>
    ELSE IF Skipped(Head(fields), meter_data)
         THEN MapFieldsReversed(Tail(fields), meter_data)
         ELSE MapFieldsReversed(Tail(fields), meter_data)
              \o <<dbus_record(Head(fields), meter_data)>>

\* the loop of lines 329-360
RECURSIVE MapFields(_, _)
MapFields(fields, meter_data) ==
    IF fields = <<>> THEN <<>>
    ELSE IF Skipped(Head(fields), meter_data)
         THEN MapFields(Tail(fields), meter_data)
         ELSE <<dbus_record(Head(fields), meter_data)>>
              \o MapFields(Tail(fields), meter_data)

MappingRaises(fields, meter_data) ==
    \E k \in 1..Len(fields) : Raises(fields[k], meter_data)

ConnectedRecord(v) ==
    [path |-> "/Connected", value |-> Num(v), valueType |-> "integer",
     writeable |-> FALSE, unit |-> "absent", digits |-> "absent"]

\* faulty variant: the counter itself, without the modulus
UpdateIndexRecordRaw(i) ==
    [path |-> "/UpdateIndex", value |-> Num(i),
     valueType |-> "integer", writeable |-> FALSE,
     unit |-> "absent", digits |-> "absent"]

UpdateIndexRecord(i) ==
    [path |-> "/UpdateIndex", value |-> Num(i % UpdateIndexModulus),
     valueType |-> "integer", writeable |-> FALSE,
     unit |-> "absent", digits |-> "absent"]

\* faulty variant: the raw source connectivity, as in earlier revisions
ConnectedValueSourceOnly(src, active) == IF src THEN 1 ELSE 0

\* 1 if self.source_connected and self.victron_publishing_active else 0
ConnectedValue(src, active) == IF src /\ active THEN 1 ELSE 0

\* faulty variant: the status record is left out unless it would say 1
WithConnectedWhenUp(data, src, active) ==
    IF src /\ active THEN Append(data, ConnectedRecord(1)) ELSE data

\* dbus_data.append of lines 363-368
WithConnected(data, src, active) ==
    Append(data, ConnectedRecord(ConnectedValue(src, active)))

disconnect_msg(i) == <<ConnectedRecord(0), UpdateIndexRecord(i)>>

\* setup_mqtt_victron, lines 122-137: the will registered on VICTRON_TOPIC
will_msg == [dbus_data |-> <<ConnectedRecord(0)>>, retain |-> TRUE]

\* faulty variant: every publish on VICTRON_TOPIC is retained
PublishRetainAlways(by) == TRUE

\* the retain argument of the publish calls on VICTRON_TOPIC: none at line
\* 412 (publish_to_victron), retain=True at line 268 (send_disconnected_status)
PublishRetain(by) == by # "publish_to_victron"

\* ------------------------------------------------------------------ state
VARIABLES
    source_connected,           \* self.source_connected
    victron_mqtt_connected,     \* self.victron_mqtt_connected
    victron_publishing_active,  \* self.victron_publishing_active
    processing_lock,            \* Free or the context that holds it
    index,                      \* self.index
    last_message_time,          \* self.last_message_time, NoTime for None
    timeout_lock,               \* "free" or the thread inside "with timeout_lock"
    shutdown_in_progress,       \* self.shutdown_in_progress
    mapping,                    \* self.mapping
    now,                        \* time.time()
    pc,                         \* position of each source callback context
    dbus_data,                  \* process_message's dbus_data, per context
    meter_data,                 \* process_message's meter_data, <<>> before json.loads
    result,                     \* publish_to_victron's result, per context
    loaded,                     \* the value of self.index read by line 402
    effects,                    \* what the running process_message has done
    mon,                        \* position of the TimeoutMonitor thread
    vic,                        \* position of the Victron callback thread
    main,                       \* stack of shutdown() frames of the main thread
    loops,                      \* network loops still running (loop_stop)
    sessions,                   \* sessions not yet closed by disconnect()
    exited,                     \* sys.exit(0) has ended the process
    published,                  \* publish calls made by shutdown(), counted
    victron_pub,                \* the publish call this step made on the Victron client
    source_pub                  \* the publish call this step made on the source client

shared == <<source_connected, victron_mqtt_connected, victron_publishing_active,
            processing_lock, index, last_message_time, timeout_lock,
            shutdown_in_progress, mapping>>
locals == <<pc, dbus_data, meter_data, result, loaded, effects>>
threads == <<mon, vic, main, loops, sessions, exited, published>>
vars == <<shared, now, locals, threads, victron_pub, source_pub>>

NoPub == [by |-> "none", dbus_data |-> <<>>, retain |-> FALSE, result |-> "none"]
NoSourcePub == [by |-> "none", text |-> "none", n |-> 0, retain |-> FALSE]
Quiet == victron_pub' = NoPub /\ source_pub' = NoSourcePub

TypeOK ==
    /\ source_connected \in BOOLEAN
    /\ victron_mqtt_connected \in BOOLEAN
    /\ victron_publishing_active \in BOOLEAN
    /\ processing_lock \in {Free} \cup Invocations
    /\ index \in Nat
    /\ last_message_time \in {NoTime} \cup 0..MaxTime
    /\ timeout_lock \in {"free", "monitor"}
    /\ shutdown_in_progress \in BOOLEAN
    /\ now \in 0..MaxTime
    /\ exited \in BOOLEAN

InitCommon ==
    /\ source_connected = FALSE
    /\ victron_mqtt_connected = FALSE
    /\ victron_publishing_active = FALSE
    /\ processing_lock = Free
    /\ index = 0
    /\ last_message_time = NoTime
    /\ timeout_lock = "free"
    /\ shutdown_in_progress = FALSE
    /\ now = 0
    /\ pc = [i \in Invocations |-> "idle"]
    /\ dbus_data = [i \in Invocations |-> <<>>]
    /\ meter_data = [i \in Invocations |-> <<>>]
    /\ result = [i \in Invocations |-> "none"]
    /\ loaded = [i \in Invocations |-> 0]
    /\ effects = [i \in Invocations |-> {}]
    /\ mon = "tick"
    /\ vic = "idle"
    /\ main = <<>>
    /\ loops = {"victron", "source"}
    /\ sessions = {"victron", "source"}
    /\ exited = FALSE
    /\ published = [offline |-> 0, disconnected |-> 0]
    /\ victron_pub = NoPub
    /\ source_pub = NoSourcePub

Init == InitCommon /\ mapping = DefaultMapping

\* a callback of the source client can be delivered to context i
SourceCallback(i) ==
    /\ ~exited
    /\ "source" \in loops
    /\ pc[i] = "idle"

\* ------------------------------------------------- source client callbacks
Goto(i, label) == pc' = [pc EXCEPT ![i] = label]
KeepLocals == UNCHANGED <<dbus_data, meter_data, result, loaded, effects>>
Did(i, what) == effects' = [effects EXCEPT ![i] = @ \cup {what}]

\* on_connect_source, lines 147-155 (rc = 0) and 158-163 (rc # 0)
on_connect_source(i) ==
    /\ SourceCallback(i)
    /\ \E rc \in {0, 1} :
         IF rc = 0
         THEN /\ source_connected' = TRUE
              /\ source_pub' = [by |-> "on_connect_source", text |-> "online", n |-> 0,
                               retain |-> TRUE]
              /\ Goto(i, "oc_update")
         ELSE /\ source_connected' = FALSE
              /\ source_pub' = NoSourcePub
              /\ UNCHANGED pc
    /\ victron_pub' = NoPub
    /\ KeepLocals
    /\ UNCHANGED <<victron_mqtt_connected, victron_publishing_active, processing_lock,
                   index, last_message_time, timeout_lock, shutdown_in_progress,
                   mapping, now, threads>>

on_disconnect_source(i) ==
    /\ SourceCallback(i)
    /\ source_connected' = FALSE
    /\ Quiet
    /\ UNCHANGED <<victron_mqtt_connected, victron_publishing_active, processing_lock,
                   index, last_message_time, timeout_lock, shutdown_in_progress,
                   mapping, now, locals, threads>>

\* faulty variant: the stored time is left as it was
StampKept(t, last) == last

\* line 201: self.last_message_time = time.time()
Stamp(t, last) == t

\* lines 277-285: a message is delivered; one on another topic is ignored, one
\* on MQTT_TOPIC passes update_last_message_time (lines 198-201), which waits
\* for timeout_lock, stores the time and releases
on_message(i, cap) ==
    /\ SourceCallback(i)
    /\ source_connected
    /\ index < cap
    /\ \E topic \in Topics :
         IF topic # "MQTT_TOPIC"
         THEN UNCHANGED <<pc, last_message_time>>
         ELSE /\ timeout_lock = "free"
              /\ last_message_time' = Stamp(now, last_message_time)
              /\ Goto(i, "om_active")
    /\ KeepLocals
    /\ Quiet
    /\ UNCHANGED <<source_connected, victron_mqtt_connected, victron_publishing_active,
                   processing_lock, index, timeout_lock, shutdown_in_progress,
                   mapping, now, threads>>

\* update_last_message_time, lines 198-201, called at 157
update_last_message_time(i) ==
    /\ pc[i] = "oc_update"
    /\ timeout_lock = "free"
    /\ last_message_time' = Stamp(now, last_message_time)
    /\ Goto(i, "idle")
    /\ KeepLocals
    /\ Quiet
    /\ UNCHANGED <<source_connected, victron_mqtt_connected, victron_publishing_active,
                   processing_lock, index, timeout_lock, shutdown_in_progress,
                   mapping, now, threads>>

\* line 288: if not self.victron_publishing_active
on_message_active(i) ==
    /\ pc[i] = "om_active"
    /\ Goto(i, IF ~victron_publishing_active THEN "om_conn" ELSE "om_conn2")
    /\ KeepLocals /\ Quiet
    /\ UNCHANGED <<shared, now, threads>>

\* lines 289-293: resume if the Victron broker is connected, else drop
on_message_connected(i) ==
    /\ pc[i] = "om_conn"
    /\ Goto(i, IF victron_mqtt_connected THEN "om_resume" ELSE "idle")
    /\ KeepLocals /\ Quiet
    /\ UNCHANGED <<shared, now, threads>>

\* faulty variant: resumes without looking at the connection
ResumeAlways(active, connected) == ~active

\* resume_victron_publishing, line 238
ResumeAllowed(active, connected) == ~active /\ connected

resume_victron_publishing(i) ==
    /\ pc[i] = "om_resume"
    /\ Goto(i, IF ResumeAllowed(victron_publishing_active, victron_mqtt_connected)
               THEN "om_resume_set" ELSE "om_conn2")
    /\ KeepLocals /\ Quiet
    /\ UNCHANGED <<shared, now, threads>>

\* resume_victron_publishing, line 240
resume_set_active(i) ==
    /\ pc[i] = "om_resume_set"
    /\ victron_publishing_active' = TRUE
    /\ Goto(i, "om_conn2")
    /\ KeepLocals /\ Quiet
    /\ UNCHANGED <<source_connected, victron_mqtt_connected, processing_lock, index,
                   last_message_time, timeout_lock, shutdown_in_progress, mapping,
                   now, threads>>

\* lines 295-297: if not self.victron_mqtt_connected: return
on_message_skip(i) ==
    /\ pc[i] = "om_conn2"
    /\ Goto(i, IF ~victron_mqtt_connected THEN "idle" ELSE "om_acquire")
    /\ KeepLocals /\ Quiet
    /\ UNCHANGED <<shared, now, threads>>

\* faulty variant: the acquire never fails
LockNeverBusy(lock) == FALSE

\* processing_lock.acquire(blocking=False) fails when the lock is held
LockBusy(lock) == lock # Free

\* faulty variant: a payload that is not JSON is mapped as an empty record
process_message_map_lenient(i, payload) ==
    IF payload.kind = "bad_utf8"
    THEN Did(i, "error") /\ Goto(i, "om_release") /\ UNCHANGED dbus_data
    ELSE /\ Did(i, IF payload.kind = "bad_json" THEN "bad_json" ELSE "transform")
         /\ Goto(i, "pm_connected")
         /\ dbus_data' = [dbus_data EXCEPT ![i] = <<>>]

\* lines 305-360 after a successful acquire: decode, json.loads and the
\* mapping loop, all on locals
process_message_map(i, payload) ==
    CASE payload.kind = "bad_utf8" ->
           /\ Did(i, "error") /\ Goto(i, "om_release") /\ UNCHANGED dbus_data
      [] payload.kind = "bad_json" ->
           /\ Did(i, "bad_json") /\ Goto(i, "om_release") /\ UNCHANGED dbus_data
      [] OTHER ->
           IF MappingRaises(mapping, payload.meter_data)
           THEN /\ Did(i, "error") /\ Goto(i, "om_release")
                /\ UNCHANGED dbus_data
           ELSE /\ Did(i, "transform") /\ Goto(i, "pm_connected")
                /\ dbus_data' = [dbus_data EXCEPT
                                   ![i] = MapFields(mapping, payload.meter_data)]

\* lines 299-302, then 304-360 with the lock held
on_message_acquire(i, payloads) ==
    /\ pc[i] = "om_acquire"
    /\ IF LockBusy(processing_lock)
       THEN /\ Goto(i, "idle")
            /\ UNCHANGED <<processing_lock, dbus_data, meter_data, effects>>
       ELSE /\ processing_lock' = i
            /\ \E payload \in payloads :
                 /\ process_message_map(i, payload)
                 /\ meter_data' = [meter_data EXCEPT ![i] =
                        IF payload.kind = "json" THEN <<payload.meter_data>>
                        ELSE <<>>]
    /\ UNCHANGED <<result, loaded>> /\ Quiet
    /\ UNCHANGED <<source_connected, victron_mqtt_connected, victron_publishing_active,
                   index, last_message_time, timeout_lock, shutdown_in_progress,
                   mapping, now, threads>>

\* lines 362-368
process_message_connected(i) ==
    /\ pc[i] = "pm_connected"
    /\ dbus_data' = [dbus_data EXCEPT ![i] =
           WithConnected(@, source_connected, victron_publishing_active)]
    /\ Goto(i, "pm_index")
    /\ UNCHANGED <<meter_data, result, loaded, effects>> /\ Quiet
    /\ UNCHANGED <<shared, now, threads>>

\* lines 370-376
process_message_index(i) ==
    /\ pc[i] = "pm_index"
    /\ dbus_data' = [dbus_data EXCEPT ![i] = Append(@, UpdateIndexRecord(index))]
    /\ Goto(i, "pm_publish")
    /\ UNCHANGED <<meter_data, result, loaded, effects>> /\ Quiet
    /\ UNCHANGED <<shared, now, threads>>

\* publish_to_victron, lines 404-424, called at 385: the result code and any
\* exception are logged, nothing is returned or raised
publish_to_victron(i) ==
    /\ pc[i] = "pm_publish"
    /\ \E r \in PublishResults :
         /\ victron_pub' = [by |-> "publish_to_victron", dbus_data |-> dbus_data[i],
                            retain |-> PublishRetain("publish_to_victron"),
                            result |-> r]
         /\ result' = [result EXCEPT ![i] = r]
    /\ Did(i, "publish")
    /\ Goto(i, "pm_echo")
    /\ source_pub' = NoSourcePub
    /\ UNCHANGED <<dbus_data, meter_data, loaded>>
    /\ UNCHANGED <<shared, now, threads>>

\* faulty variant: only the first message is echoed
EchoDueFirstOnly(n) == n = 0

\* line 388
EchoDue(n) == n % UpdateIndexModulus = 0 \/ n = 0

\* lines 387-400: the periodic status echo and the first-message log
process_message_echo(i) ==
    /\ pc[i] = "pm_echo"
    /\ source_pub' = IF EchoDue(index)
                     THEN [by |-> "process_message", text |-> "online_published",
                           n |-> index, retain |-> TRUE]
                     ELSE NoSourcePub
    /\ effects' = [effects EXCEPT ![i] =
                     @ \cup (IF EchoDue(index) THEN {"echo"} ELSE {})
                       \cup (IF index = 0 THEN {"first_log"} ELSE {})]
    /\ Goto(i, "pm_incr")
    /\ victron_pub' = NoPub
    /\ UNCHANGED <<dbus_data, meter_data, result, loaded>>
    /\ UNCHANGED <<shared, now, threads>>

\* line 402, self.index += 1: the read of self.index
process_message_incr(i) ==
    /\ pc[i] = "pm_incr"
    /\ loaded' = [loaded EXCEPT ![i] = index]
    /\ Goto(i, "pm_store")
    /\ UNCHANGED <<dbus_data, meter_data, result, effects>> /\ Quiet
    /\ UNCHANGED <<shared, now, threads>>

\* faulty variant: the value read is stored back as it is
NotIncremented(n) == n

\* line 402: the value stored
Incremented(n) == n + 1

\* line 402, self.index += 1: the store to self.index
process_message_store(i) ==
    /\ pc[i] = "pm_store"
    /\ index' = Incremented(loaded[i])
    /\ Did(i, "index")
    /\ Goto(i, "om_release")
    /\ UNCHANGED <<dbus_data, meter_data, result, loaded>> /\ Quiet
    /\ UNCHANGED <<source_connected, victron_mqtt_connected, victron_publishing_active,
                   processing_lock, last_message_time, timeout_lock,
                   shutdown_in_progress, mapping, now, threads>>

\* faulty variant: the release is skipped when process_message raised
on_message_release_on_success(i) ==
    /\ pc[i] = "om_release"
    /\ processing_lock' = IF "error" \in effects[i] THEN processing_lock ELSE Free
    /\ Goto(i, "idle")
    /\ dbus_data' = [dbus_data EXCEPT ![i] = <<>>]
    /\ meter_data' = [meter_data EXCEPT ![i] = <<>>]
    /\ result' = [result EXCEPT ![i] = "none"]
    /\ loaded' = [loaded EXCEPT ![i] = 0]
    /\ effects' = [effects EXCEPT ![i] = {}]
    /\ Quiet
    /\ UNCHANGED <<source_connected, victron_mqtt_connected, victron_publishing_active,
                   index, last_message_time, timeout_lock, shutdown_in_progress,
                   mapping, now, threads>>

\* lines 308-311: the exception handler and the finally clause
on_message_release(i) ==
    /\ pc[i] = "om_release"
    /\ processing_lock' = Free
    /\ Goto(i, "idle")
    /\ dbus_data' = [dbus_data EXCEPT ![i] = <<>>]
    /\ meter_data' = [meter_data EXCEPT ![i] = <<>>]
    /\ result' = [result EXCEPT ![i] = "none"]
    /\ loaded' = [loaded EXCEPT ![i] = 0]
    /\ effects' = [effects EXCEPT ![i] = {}]
    /\ Quiet
    /\ UNCHANGED <<source_connected, victron_mqtt_connected, victron_publishing_active,
                   index, last_message_time, timeout_lock, shutdown_in_progress,
                   mapping, now, threads>>

\* the steps of on_message once a message was taken in
MessageStep(i, payloads) ==
    \/ update_last_message_time(i)
    \/ on_message_active(i)
    \/ on_message_connected(i)
    \/ resume_victron_publishing(i)
    \/ resume_set_active(i)
    \/ on_message_skip(i)
    \/ on_message_acquire(i, payloads)
    \/ process_message_connected(i)
    \/ process_message_index(i)
    \/ publish_to_victron(i)
    \/ process_message_echo(i)
    \/ process_message_incr(i)
    \/ process_message_store(i)
    \/ on_message_release(i)

SourceStep(i, cap, payloads) ==
    \/ on_connect_source(i)
    \/ on_disconnect_source(i)
    \/ on_message(i, cap)
    \/ MessageStep(i, payloads)

\* ------------------------------------------------ Victron client callbacks
VictronCallback == ~exited /\ "victron" \in loops /\ vic = "idle"

\* faulty variant: a successful connect switches publishing on
ActiveAfterConnectResumed(active) == TRUE

\* lines 167-170: a successful connect leaves victron_publishing_active alone
ActiveAfterConnect(active) == active

\* on_connect_victron, line 169 (rc = 0) and line 176 (rc # 0)
on_connect_victron ==
    /\ VictronCallback
    /\ \E rc \in {0, 1} :
         IF rc = 0
         THEN /\ victron_mqtt_connected' = TRUE
              /\ victron_publishing_active' = ActiveAfterConnect(victron_publishing_active)
              /\ UNCHANGED vic
         ELSE /\ victron_mqtt_connected' = FALSE
              /\ UNCHANGED victron_publishing_active
              /\ vic' = "set_inactive"
    /\ Quiet
    /\ UNCHANGED <<source_connected, processing_lock, index,
                   last_message_time, timeout_lock, shutdown_in_progress, mapping,
                   now, locals, mon, main, loops, sessions, exited, published>>

\* on_disconnect_victron, line 190
on_disconnect_victron ==
    /\ VictronCallback
    /\ victron_mqtt_connected' = FALSE
    /\ vic' = "set_inactive"
    /\ Quiet
    /\ UNCHANGED <<source_connected, victron_publishing_active, processing_lock, index,
                   last_message_time, timeout_lock, shutdown_in_progress, mapping,
                   now, locals, mon, main, loops, sessions, exited, published>>

\* lines 177 and 191: self.victron_publishing_active = False
victron_set_inactive ==
    /\ ~exited
    /\ vic = "set_inactive"
    /\ victron_publishing_active' = FALSE
    /\ vic' = "idle"
    /\ Quiet
    /\ UNCHANGED <<source_connected, victron_mqtt_connected, processing_lock, index,
                   last_message_time, timeout_lock, shutdown_in_progress, mapping,
                   now, locals, mon, main, loops, sessions, exited, published>>

\* --------------------------------------------------- TimeoutMonitor thread
MonitorGoto(label) == mon' = label

\* faulty variant: the timeout itself already counts as exceeded
TimedOutInclusive(t, last) == t - last >= MESSAGE_TIMEOUT

\* line 216
TimedOut(t, last) == t - last > MESSAGE_TIMEOUT

\* lines 210-217: the tick goes on to suspend_victron_publishing
SuspendDue ==
    /\ last_message_time # NoTime
    /\ TimedOut(now, last_message_time)
    /\ victron_publishing_active

\* line 206: while not self.shutdown_in_progress; the thread then sleeps
monitor ==
    /\ ~exited
    /\ mon = "tick"
    /\ MonitorGoto(IF shutdown_in_progress THEN "done" ELSE "sleep")
    /\ Quiet
    /\ UNCHANGED <<shared, now, locals, vic, main, loops, sessions, exited, published>>

\* lines 207-217, the pass after the sleep up to the call at 223: with
\* timeout_lock, the three tests. A pass that does not reach line 223 leaves
\* the with block at once and changes nothing.
monitor_tick ==
    /\ ~exited
    /\ mon = "sleep"
    /\ timeout_lock = "free"
    /\ IF SuspendDue
       THEN MonitorGoto("suspend") /\ timeout_lock' = "monitor"
       ELSE MonitorGoto("tick") /\ UNCHANGED timeout_lock
    /\ Quiet
    /\ UNCHANGED <<source_connected, victron_mqtt_connected, victron_publishing_active,
                   processing_lock, index, last_message_time, shutdown_in_progress,
                   mapping, now, locals, vic, main, loops, sessions, exited,
                   published>>

\* suspend_victron_publishing, line 231; when the test fails the with block
\* of line 209 is left
suspend_victron_publishing ==
    /\ ~exited
    /\ mon = "suspend"
    /\ IF victron_publishing_active
       THEN MonitorGoto("set_inactive") /\ UNCHANGED timeout_lock
       ELSE MonitorGoto("tick") /\ timeout_lock' = "free"
    /\ Quiet
    /\ UNCHANGED <<source_connected, victron_mqtt_connected, victron_publishing_active,
                   processing_lock, index, last_message_time, shutdown_in_progress,
                   mapping, now, locals, vic, main, loops, sessions, exited,
                   published>>

\* suspend_victron_publishing, line 232
suspend_set_inactive ==
    /\ ~exited
    /\ mon = "set_inactive"
    /\ victron_publishing_active' = FALSE
    /\ MonitorGoto("sd_check")
    /\ Quiet
    /\ UNCHANGED <<source_connected, victron_mqtt_connected, processing_lock, index,
                   last_message_time, timeout_lock, shutdown_in_progress, mapping,
                   now, locals, vic, main, loops, sessions, exited, published>>

\* send_disconnected_status, lines 244-245; the early return leaves the with
\* block of line 209
monitor_sd_check ==
    /\ ~exited
    /\ mon = "sd_check"
    /\ IF ~victron_mqtt_connected
       THEN MonitorGoto("tick") /\ timeout_lock' = "free"
       ELSE MonitorGoto("sd_publish") /\ UNCHANGED timeout_lock
    /\ Quiet
    /\ UNCHANGED <<source_connected, victron_mqtt_connected, victron_publishing_active,
                   processing_lock, index, last_message_time, shutdown_in_progress,
                   mapping, now, locals, vic, main, loops, sessions, exited,
                   published>>

\* send_disconnected_status, lines 247-275: the message is built from
\* self.index and handed to publish in the same step
monitor_sd_publish ==
    /\ ~exited
    /\ mon = "sd_publish"
    /\ \E r \in PublishResults :
         victron_pub' = [by |-> "monitor", dbus_data |-> disconnect_msg(index),
                         retain |-> PublishRetain("monitor"), result |-> r]
    /\ MonitorGoto("release")
    /\ source_pub' = NoSourcePub
    /\ UNCHANGED <<shared, now, locals, vic, main, loops, sessions, exited, published>>

\* after the publish, line 234 and the end of the with block of line 209
monitor_release ==
    /\ ~exited
    /\ mon = "release"
    /\ timeout_lock' = "free"
    /\ MonitorGoto("tick")
    /\ Quiet
    /\ UNCHANGED <<source_connected, victron_mqtt_connected, victron_publishing_active,
                   processing_lock, index, last_message_time, shutdown_in_progress,
                   mapping, now, locals, vic, main, loops, sessions, exited,
                   published>>

MonitorStep ==
    \/ monitor
    \/ monitor_tick
    \/ suspend_victron_publishing
    \/ suspend_set_inactive
    \/ monitor_sd_check
    \/ monitor_sd_publish
    \/ monitor_release

\* the wall clock moves on
AdvanceTime ==
    /\ ~exited
    /\ \E d \in TimeSteps : now + d <= MaxTime /\ now' = now + d
    /\ Quiet
    /\ UNCHANGED <<shared, locals, threads>>

\* ------------------------------------------------- main thread: shutdown
Top == main[Len(main)]
MainAt(label) == ~exited /\ main # <<>> /\ Top = label
MainGoto(label) == main' = [main EXCEPT ![Len(main)] = label]
\* the try block of shutdown, lines 451-455
TryBlock == {"offline", "sd_check", "sd_publish", "sleep"}

\* run_forever, lines 428-434: a termination signal runs signal_handler on the
\* main thread, on top of whatever that thread was doing
signal_handler ==
    /\ ~exited
    /\ Len(main) < Cardinality(Signals)
    /\ main' = Append(main, "flag")
    /\ Quiet
    /\ UNCHANGED <<shared, now, locals, mon, vic, loops, sessions, exited,
                   published>>

\* shutdown, lines 448-449
shutdown ==
    /\ MainAt("flag")
    /\ shutdown_in_progress' = TRUE
    /\ MainGoto("offline")
    /\ Quiet
    /\ UNCHANGED <<source_connected, victron_mqtt_connected, victron_publishing_active,
                   processing_lock, index, last_message_time, timeout_lock, mapping,
                   now, locals, mon, vic, loops, sessions, exited, published>>

\* shutdown, line 453
shutdown_offline ==
    /\ MainAt("offline")
    /\ source_pub' = [by |-> "shutdown", text |-> "offline", n |-> 0,
                     retain |-> TRUE]
    /\ published' = [published EXCEPT !.offline = @ + 1]
    /\ MainGoto("sd_check")
    /\ victron_pub' = NoPub
    /\ UNCHANGED <<shared, now, locals, mon, vic, loops, sessions, exited>>

\* send_disconnected_status, lines 244-245, called at 454
shutdown_sd_check ==
    /\ MainAt("sd_check")
    /\ MainGoto(IF ~victron_mqtt_connected THEN "sleep" ELSE "sd_publish")
    /\ Quiet
    /\ UNCHANGED <<shared, now, locals, mon, vic, loops, sessions, exited,
                   published>>

\* send_disconnected_status, lines 247-275
shutdown_sd_publish ==
    /\ MainAt("sd_publish")
    /\ \E r \in PublishResults :
         victron_pub' = [by |-> "shutdown", dbus_data |-> disconnect_msg(index),
                         retain |-> PublishRetain("shutdown"), result |-> r]
    /\ published' = [published EXCEPT !.disconnected = @ + 1]
    /\ MainGoto("sleep")
    /\ source_pub' = NoSourcePub
    /\ UNCHANGED <<shared, now, locals, mon, vic, loops, sessions, exited>>

\* shutdown, line 455
shutdown_sleep ==
    /\ MainAt("sleep")
    /\ MainGoto("stop_victron")
    /\ Quiet
    /\ UNCHANGED <<shared, now, locals, mon, vic, loops, sessions, exited,
                   published>>

\* shutdown, line 460: loop_stop joins the Victron callback thread
shutdown_stop_victron ==
    /\ MainAt("stop_victron")
    /\ vic = "idle"
    /\ loops' = loops \ {"victron"}
    /\ MainGoto("stop_source")
    /\ Quiet
    /\ UNCHANGED <<shared, now, locals, mon, vic, sessions, exited, published>>

\* shutdown, line 461: loop_stop joins the source callback thread
shutdown_stop_source ==
    /\ MainAt("stop_source")
    /\ \A i \in Invocations : pc[i] = "idle"
    /\ loops' = loops \ {"source"}
    /\ MainGoto("disconnect")
    /\ Quiet
    /\ UNCHANGED <<shared, now, locals, mon, vic, sessions, exited, published>>

\* shutdown, lines 464-467, and sys.exit(0) of signal_handler (line 431).
\* With its loop stopped a client may run its on_disconnect callback (lines
\* 181, 190-191) inside disconnect(). SystemExit ends the process unless the
\* interrupted frame is inside the try block of an outer shutdown, whose bare
\* except (line 456) swallows it.
shutdown_disconnect ==
    /\ MainAt("disconnect")
    /\ sessions' = {}
    /\ \/ UNCHANGED <<victron_mqtt_connected, victron_publishing_active>>
       \/ victron_mqtt_connected' = FALSE /\ victron_publishing_active' = FALSE
    /\ source_connected' \in {source_connected, FALSE}
    /\ IF Len(main) > 1 /\ main[Len(main) - 1] \in TryBlock
       THEN /\ main' = [SubSeq(main, 1, Len(main) - 1) EXCEPT
                          ![Len(main) - 1] = "stop_victron"]
            /\ UNCHANGED exited
       ELSE /\ main' = SubSeq(main, 1, Len(main) - 1)
            /\ exited' = TRUE
    /\ Quiet
    /\ UNCHANGED <<processing_lock, index, last_message_time, timeout_lock,
                   shutdown_in_progress, mapping, now, locals, mon, vic,
                   loops, published>>

MainStep ==
    \/ signal_handler
    \/ shutdown
    \/ shutdown_offline
    \/ shutdown_sd_check
    \/ shutdown_sd_publish
    \/ shutdown_sleep
    \/ shutdown_stop_victron
    \/ shutdown_stop_source
    \/ shutdown_disconnect

VictronStep ==
    \/ on_connect_victron
    \/ on_disconnect_victron
    \/ victron_set_inactive

\* the program: one network thread per client, so one source callback at a time
Next ==
    \/ SourceStep(1, MaxIndex, Payloads)
    \/ VictronStep
    \/ MonitorStep
    \/ MainStep
    \/ AdvanceTime

Spec == Init /\ [][Next]_vars

\* source callbacks that overlap: a second context takes a callback while the
\* first is busy; no termination signal
NextOverlap ==
    \/ SourceStep(1, MaxIndex, Payloads)
    \/ (pc[1] # "idle" \/ pc[2] # "idle") /\ SourceStep(2, MaxIndex, Payloads)
    \/ VictronStep
    \/ MonitorStep
    \/ AdvanceTime

SpecOverlap == Init /\ [][NextOverlap]_vars

\* a long run: the source stays connected and sends messages until index has
\* passed the modulus, the Victron broker connects, one termination signal
NextLong ==
    \/ on_connect_source(1)
    \/ on_message(1, MaxLongIndex)
    \/ MessageStep(1, Payloads)
    \/ on_connect_victron
    \/ victron_set_inactive
    \/ main = <<>> /\ signal_handler
    \/ MainStep /\ Len(main') <= 1

SpecLong == Init /\ [][NextLong]_vars

\* any mapping table of Tables, any payload of AllPayloads
InitMap == InitCommon /\ mapping \in Tables

NextMap ==
    \/ SourceStep(1, MaxIndex, AllPayloads)
    \/ VictronStep

SpecMap == InitMap /\ [][NextMap]_vars

\* ------------------------------------------------------------- properties
\* positions of on_message with processing_lock held
Crit == {"pm_connected", "pm_index", "pm_publish", "pm_echo", "pm_incr", "pm_store",
         "om_release"}
Moved(i) == pc'[i] # pc[i]
NormalUpdate(p) == p.by = "publish_to_victron"
Last(seq) == seq[Len(seq)]

\* C1, state part: at most one context is between acquire and release, the
\* lock is held exactly by that context, the acquire never blocks, and the
\* holder can always take its next step towards the release
OneTransform ==
    /\ \A i, j \in Invocations : pc[i] \in Crit /\ pc[j] \in Crit => i = j
    /\ \A i \in Invocations : processing_lock = i <=> pc[i] \in Crit
    /\ \A i \in Invocations :
         pc[i] = "om_acquire" => ENABLED on_message_acquire(i, Payloads)
    /\ \A i \in Invocations : pc[i] \in Crit => ENABLED MessageStep(i, Payloads)

\* C1, step part: an invocation that finds the lock held returns at once and
\* transforms, publishes and counts nothing
DroppedWhenBusy ==
    \A i \in Invocations :
        pc[i] = "om_acquire" /\ processing_lock # Free /\ Moved(i)
        => /\ pc'[i] = "idle"
           /\ UNCHANGED <<index, processing_lock, dbus_data, effects>>
           /\ victron_pub' = NoPub

\* C1: at most one message transform is in flight; an on_message that meets a
\* held processing lock is dropped without blocking (no transform, no
\* publish, index unchanged); of two overlapping messages never both are
\* processed, and the lock never deadlocks
C1_OneTransformInFlight == []OneTransform /\ [][DroppedWhenBusy]_vars

\* two invocations overlap: one holds the lock, the other is at the acquire
C1_Witness ==
    /\ pc[1] = "pm_publish" /\ processing_lock = 1
    /\ pc[2] = "om_acquire"

\* C5, step part: the three early returns of on_message (destination not
\* connected at 289 or 295, lock held at 300) change no index and publish
\* nothing
RejectedBeforeLock ==
    \A i \in Invocations :
        /\ Moved(i)
        /\ \/ pc[i] = "om_conn" /\ ~victron_mqtt_connected
           \/ pc[i] = "om_conn2" /\ ~victron_mqtt_connected
           \/ pc[i] = "om_acquire" /\ processing_lock # Free
        => /\ pc'[i] = "idle"
           /\ index' = index
           /\ victron_pub' = NoPub /\ source_pub' = NoSourcePub

\* C5, state part: a payload that is not JSON has, when the lock is about to
\* be released, led to no transform, no publish and no index change
RejectedBadJson ==
    \A i \in Invocations :
        pc[i] \in Crit /\ "bad_json" \in effects[i]
        => pc[i] = "om_release" /\ effects[i] = {"bad_json"} /\ result[i] = "none"

\* C5: a message rejected before publishing (payload not JSON, processing
\* lock held, destination not connected) leaves index unchanged and causes
\* no publish to the destination
C5_RejectedLeavesNoTrace == []RejectedBadJson /\ [][RejectedBeforeLock]_vars

\* a payload that is not JSON was rejected while a second message waits
C5_Witness ==
    \E i \in Invocations : pc[i] = "om_release" /\ effects[i] = {"bad_json"}

\* C9, step part: the /Connected record appended at lines 363-368 is 1 iff
\* source_connected and victron_publishing_active both hold in that step
ConnectedAssembled ==
    \A i \in Invocations :
        pc[i] = "pm_connected" /\ Moved(i)
        => /\ Len(dbus_data'[i]) = Len(dbus_data[i]) + 1
           /\ Last(dbus_data'[i]).path = "/Connected"
           /\ Last(dbus_data'[i]).value.n = 1
                <=> (source_connected /\ victron_publishing_active)
           /\ Last(dbus_data'[i]).value.n \in {0, 1}

\* C9, step part: the update handed to publish is the assembled one
AssembledIsPublished ==
    NormalUpdate(victron_pub')
    => \E i \in Invocations :
         /\ pc[i] = "pm_publish" /\ Moved(i)
         /\ victron_pub'.dbus_data = dbus_data[i]
         /\ victron_pub'.dbus_data[Len(dbus_data[i]) - 1].path = "/Connected"

\* C9: in every normal update the /Connected record is 1 iff sourceConnected
\* and publishingActive were both true when the record was assembled, also
\* when disconnects or a suspension interleave with the processing
C9_ConnectedIffBoth == [][ConnectedAssembled /\ AssembledIsPublished]_vars

\* an update was published with /Connected = 0 although its message arrived
\* while the source was connected and publishing had been resumed
C9_Witness ==
    /\ NormalUpdate(victron_pub)
    /\ victron_pub.dbus_data[Len(victron_pub.dbus_data) - 1].value.n = 0

\* positions of the monitor inside suspend_victron_publishing
SuspendPath == {"suspend", "set_inactive", "sd_check", "sd_publish", "release"}

\* p is a retained disconnected-status record built from index n
DisconnectedStatus(p, n) ==
    /\ p.retain
    /\ Len(p.dbus_data) = 2
    /\ p.dbus_data[1].path = "/Connected" /\ p.dbus_data[1].value.n = 0
    /\ p.dbus_data[2].path = "/UpdateIndex" /\ p.dbus_data[2].value.n = n % 256

\* a pass of the monitor that went on to suspend_victron_publishing returns
\* to the loop only after the publish of send_disconnected_status
SuspensionEmits == (mon \in SuspendPath /\ mon' = "tick") => (mon = "release")

\* C2: when no message has arrived for longer than the timeout while
\* publishing is active, the suspension sets publishingActive false and emits
\* exactly one retained disconnected record (/Connected=0, /UpdateIndex =
\* index mod 256): every pass of the monitor that found the timeout exceeded
\* with publishing active ends with that record emitted
C2_EverySuspensionEmits == [][SuspensionEmits]_vars

\* the steps of a suspension as the monitor takes them
SuspensionSteps ==
    \* a pass starts only after more than the timeout without a message,
    \* with publishing active
    /\ mon = "sleep" /\ mon' = "suspend"
       => /\ last_message_time # NoTime
          /\ now - last_message_time > MESSAGE_TIMEOUT
          /\ victron_publishing_active
    \* it sets publishing inactive
    /\ mon = "set_inactive" /\ mon' # mon => ~victron_publishing_active'
    \* the monitor publishes once per pass, the retained disconnected record
    /\ victron_pub'.by = "monitor"
       => /\ mon = "sd_publish" /\ mon' = "release"
          /\ DisconnectedStatus(victron_pub', index)
    \* a pass ends without the record only if publishing was already
    \* inactive at line 231 or the destination not connected at line 244
    /\ mon \in SuspendPath /\ mon' = "tick"
       => \/ mon = "release"
          \/ mon = "suspend" /\ ~victron_publishing_active
          \/ mon = "sd_check" /\ ~victron_mqtt_connected

\* while publishing is suspended no tick of the monitor can
\* change the program's state or publish
SuspendedTickIdle ==
    mon = "sleep" /\ ~victron_publishing_active
    => ~ENABLED (/\ monitor_tick
                 /\ ~(/\ UNCHANGED <<shared, locals>>
                      /\ victron_pub' = NoPub /\ source_pub' = NoSourcePub))

\* what the monitor does guarantee: a suspension starts only after more than
\* the timeout without a message while publishing is active, it emits at most
\* one retained disconnected record (/Connected=0, /UpdateIndex = index mod
\* 256), none when publishing is found inactive at line 231 or the
\* destination not connected at line 244, and a tick while publishing is
\* suspended changes nothing and emits nothing
SuspendOnce == []SuspendedTickIdle /\ [][SuspensionSteps]_vars

\* the monitor has suspended publishing and emitted the record
SuspendOnce_Reached ==
    /\ mon = "release" /\ victron_pub.by = "monitor"
    /\ ~victron_publishing_active
    /\ now - last_message_time > MESSAGE_TIMEOUT

\* C3, the steps of a message that finds publishing suspended
ResumeSteps ==
    \A i \in Invocations :
        \* line 289: dropped when the destination is not connected
        /\ pc[i] = "om_conn" /\ Moved(i)
           => IF victron_mqtt_connected
              THEN pc'[i] = "om_resume"
              ELSE /\ pc'[i] = "idle"
                   /\ UNCHANGED <<victron_publishing_active, index, dbus_data>>
                   /\ victron_pub' = NoPub
        \* lines 238-240: publishing flips back to active
        /\ pc[i] = "om_resume" /\ Moved(i)
           => IF ~victron_publishing_active /\ victron_mqtt_connected
              THEN pc'[i] = "om_resume_set"
              ELSE pc'[i] = "om_conn2"
        /\ pc[i] = "om_resume_set" /\ Moved(i)
           => victron_publishing_active' /\ pc'[i] = "om_conn2"
        \* lines 295-360: connected, so the message is taken to the transform
        /\ pc[i] = "om_conn2" /\ Moved(i) /\ victron_mqtt_connected
           => pc'[i] = "om_acquire"
        /\ pc[i] = "om_acquire" /\ Moved(i) /\ processing_lock = Free
           => pc'[i] \in {"pm_connected", "om_release"}

\* C3: the first message after a suspension, with the destination connected,
\* sets publishingActive and is processed normally; with the destination not
\* connected it is dropped without transform and publishing stays suspended
C3_ResumeOnMessage == [][ResumeSteps]_vars

\* a message that came after the timeout has resumed publishing and is
\* being transformed
C3_Witness ==
    /\ pc[1] = "pm_connected" /\ victron_publishing_active
    /\ last_message_time > MESSAGE_TIMEOUT

\* C4: when the publish of a transformed message fails (result code not
\* success, or an exception), index does not advance for that message
C4_NoAdvanceOnPublishFailure ==
    \A i \in Invocations :
        pc[i] = "om_release" /\ result[i] \in {"fail", "raise"}
        => "index" \notin effects[i]

\* C6: timeout_lock is never held by a thread while it performs a network
\* publish call
C6_TimeoutLockNotHeldInPublish ==
    \A thread \in {"monitor"} :
        victron_pub.by = thread => timeout_lock # thread

\* C7: two shutdown calls publish the offline status and the final
\* disconnected status at most once in total
C7_ShutdownIdempotent ==
    published.offline <= 1 /\ published.disconnected <= 1

\* C8, the steps that touch or emit the counter
IndexSteps ==
    \* never decreases, resets or wraps
    /\ index' >= index
    \* a normal update's record is built from index mod 256 (lines 371-376)
    /\ \A i \in Invocations :
         pc[i] = "pm_index" /\ Moved(i)
         => /\ Last(dbus_data'[i]).path = "/UpdateIndex"
            /\ Last(dbus_data'[i]).value.n = index % 256
    \* whatever is handed to the Victron client ends with that record, still
    \* equal to index mod 256
    /\ victron_pub' # NoPub
       => /\ Last(victron_pub'.dbus_data).path = "/UpdateIndex"
          /\ Last(victron_pub'.dbus_data).value.n = index % 256
          /\ Last(victron_pub'.dbus_data).value.n \in 0..255

\* C8: index starts at 0 and never decreases, resets or wraps; every emitted
\* /UpdateIndex (normal update or disconnected status) equals index mod 256
\* when the record is built, so it is 0 again after 256 processed messages
C8_UpdateIndexIsIndexMod256 == index = 0 /\ [][IndexSteps]_vars

\* the 257th message is published with /UpdateIndex = 0
C8_Witness ==
    /\ NormalUpdate(victron_pub)
    /\ index = 256
    /\ Last(victron_pub.dbus_data).value.n = 0

Count(d, path) == Cardinality({k \in 1..Len(d) : d[k].path = path})
StatusPaths == {"/Connected", "/UpdateIndex"}
RulePaths == {mapping[r].path : r \in {k \in 1..Len(mapping) : "path" \in DOMAIN mapping[k]}}

\* C10: for every mapping table and meter record, every normal update holds
\* exactly one /Connected and exactly one /UpdateIndex record, in that order
\* after the mapped-field records
C10_ExactlyOneOfEach ==
    NormalUpdate(victron_pub)
    => LET d == victron_pub.dbus_data
           n == Len(victron_pub.dbus_data)
       IN /\ Count(d, "/Connected") = 1 /\ Count(d, "/UpdateIndex") = 1
          /\ d[n - 1].path = "/Connected" /\ d[n].path = "/UpdateIndex"

\* what process_message does guarantee: every normal update ends with the
\* appended /Connected record followed by the appended /UpdateIndex record,
\* after all mapped-field records; these are the only records with those
\* paths when no rule of the mapping table has the path /Connected or
\* /UpdateIndex
StatusRecordsAppended ==
    NormalUpdate(victron_pub)
    => LET d == victron_pub.dbus_data
           n == Len(victron_pub.dbus_data)
       IN /\ n >= 2
          /\ d[n - 1].path = "/Connected" /\ d[n - 1].value.n \in {0, 1}
          /\ d[n].path = "/UpdateIndex"
          /\ \A k \in 1..(n - 2) : d[k].path \in RulePaths
          /\ n - 2 <= Len(mapping)
          /\ RulePaths \cap StatusPaths = {}
             => Count(d, "/Connected") = 1 /\ Count(d, "/UpdateIndex") = 1

\* an update with two mapped-field records and the two status records
StatusRecordsAppended_Reached ==
    /\ NormalUpdate(victron_pub)
    /\ Len(victron_pub.dbus_data) = 4
    /\ Count(victron_pub.dbus_data, "/Connected") = 1

\* C11, the rules of the table that apply to the record md, by position
Kept(fields, md) ==
    {k \in 1..Len(fields) : /\ "path" \in DOMAIN fields[k]
                            /\ "name" \in DOMAIN fields[k]
                            /\ fields[k].name \in DOMAIN md}

\* the j-th of them in table order
NthKept(fields, md, j) ==
    CHOOSE k \in Kept(fields, md) :
        Cardinality({x \in Kept(fields, md) : x <= k}) = j

\* d is the table-ordered sequence of one record per applicable rule
MappedPart(d, fields, md) ==
    /\ Len(d) = Cardinality(Kept(fields, md))
    /\ \A j \in 1..Len(d) :
         LET f == fields[NthKept(fields, md, j)]
         IN /\ d[j].path = f.path
            /\ d[j].valueType = f.valueType
            /\ d[j].writeable = FALSE
            /\ d[j].value = IF "multiplier" \in DOMAIN f
                            THEN Num(md[f.name].n * f.multiplier)
                            ELSE md[f.name]

\* C11: for every mapping table and meter record the mapped part of the
\* output is exactly the table-ordered sequence of one record per rule that
\* has a path and whose name is a key of the record; a rule that lacks path or
\* whose name is absent gives no record and no error (an error comes only
\* from a rule that applies); every emitted record has writeable = false
C11_MappedPartInTableOrder ==
    /\ \A i \in Invocations :
         /\ pc[i] = "pm_connected"
            => /\ Len(meter_data[i]) = 1
               /\ MappedPart(dbus_data[i], mapping, meter_data[i][1])
         /\ pc[i] = "om_release" /\ "error" \in effects[i] /\ Len(meter_data[i]) = 1
            => \E k \in Kept(mapping, meter_data[i][1]) :
                 \/ "valueType" \notin DOMAIN mapping[k]
                 \/ /\ "multiplier" \in DOMAIN mapping[k]
                    /\ meter_data[i][1][mapping[k].name].t # "num"
    /\ NormalUpdate(victron_pub)
       => /\ \E i \in Invocations :
               /\ pc[i] = "pm_echo"
               /\ MappedPart(SubSeq(victron_pub.dbus_data, 1,
                                    Len(victron_pub.dbus_data) - 2),
                             mapping, meter_data[i][1])
          /\ \A k \in 1..Len(victron_pub.dbus_data) :
               victron_pub.dbus_data[k].writeable = FALSE

\* a table with a rule that lacks path, a rule whose name the record lacks
\* and a rule that applies has produced the one record
C11_Witness ==
    /\ mapping = DefaultMapping
    /\ pc[1] = "pm_echo" /\ NormalUpdate(victron_pub)
    /\ meter_data[1] = <<MeterPower>>
    /\ Len(victron_pub.dbus_data) = 3

\* positions of on_message after line 285
MessagePath ==
    {"om_active", "om_conn", "om_resume", "om_resume_set", "om_conn2", "om_acquire"}
    \cup Crit

\* C12, step part: a message on the telemetry topic stores the current time
\* as it is taken in, the tests of lines 288-300 are reached only from there,
\* and no later step of the message, dropped or processed, takes it back
StampedFirst ==
    \A i \in Invocations :
        /\ pc[i] = "idle" /\ pc'[i] # "idle" /\ pc'[i] # "oc_update"
           => pc'[i] = "om_active" /\ last_message_time' = now
        /\ pc'[i] \in MessagePath \ {"om_active"} /\ Moved(i)
           => pc[i] \in MessagePath
        /\ pc[i] \in MessagePath /\ Moved(i)
           => last_message_time' = last_message_time

\* C12, state part: whatever test a message is at, its time has been stored
StampedInFlight ==
    \A i \in Invocations :
        pc[i] \in MessagePath
        => last_message_time # NoTime /\ last_message_time <= now

\* C12: for every message on the telemetry topic the liveness timestamp is
\* updated before the publishability check of that message, and whether the
\* message is then dropped (destination disconnected, lock busy, malformed
\* payload) or processed
C12_TimestampBeforeCheck == []StampedInFlight /\ [][StampedFirst]_vars

\* a message that is about to be dropped because the destination is not
\* connected has stored its arrival time
C12_Witness ==
    /\ pc[1] = "om_conn" /\ ~victron_mqtt_connected
    /\ last_message_time = now /\ now > 0

\* C13, step part: a step that switches publishing on is line 240 of
\* resume_victron_publishing, run by a context that is handling a message;
\* the monitor, the Victron callbacks and shutdown stand still in that step
SwitchedOnByMessage ==
    ~victron_publishing_active /\ victron_publishing_active'
    => /\ \E i \in Invocations :
            pc[i] = "om_resume_set" /\ pc'[i] = "om_conn2"
       /\ UNCHANGED <<mon, vic, main, victron_mqtt_connected, source_connected>>

\* C13, step part: a step of the monitor, of a connect or disconnect callback
\* or of shutdown leaves publishing off when it was off
OthersLeaveSuspended ==
    (\/ mon' # mon \/ vic' # vic \/ main' # main
     \/ victron_mqtt_connected' # victron_mqtt_connected
     \/ source_connected' # source_connected)
    => (~victron_publishing_active => ~victron_publishing_active')

\* C13: publishingActive goes from false to true only while an inbound
\* telemetry message is handled in on_message; no monitor tick, no connect or
\* disconnect callback of either client and no shutdown step sets it, so a
\* destination (re)connect alone leaves publishing suspended
C13_ResumeOnlyInOnMessage == [][SwitchedOnByMessage /\ OthersLeaveSuspended]_vars

\* the destination is connected again after a suspension and publishing is
\* still off, no message being handled
C13_Witness ==
    /\ victron_mqtt_connected /\ ~victron_publishing_active
    /\ last_message_time # NoTime /\ now - last_message_time > MESSAGE_TIMEOUT
    /\ index = 1 /\ pc[1] = "idle" /\ vic = "idle" /\ mon = "tick"

\* the message of context i has failed: payload not decoded, exception in
\* the mapping, or publish not successful
Failed(i) ==
    /\ pc[i] = "om_release"
    /\ \/ effects[i] \cap {"error", "bad_json"} # {}
       \/ result[i] \in {"fail", "raise"}

\* C14, step part: the step after a failure hands the lock back and ends the
\* callback; the loops keep running and the process does not exit
FailureReleases ==
    \A i \in Invocations :
        Failed(i) /\ Moved(i)
        => /\ pc'[i] = "idle" /\ processing_lock' = Free
           /\ UNCHANGED <<loops, sessions, exited, index>>

\* C14, state part: a failed message can always take that step, the lock is
\* never left held by nobody, and a message that finds the lock free and the
\* destination connected can be transformed and then published
NextMessageServed ==
    /\ \A i \in Invocations : Failed(i) => ENABLED on_message_release(i)
    /\ processing_lock # Free => \E i \in Invocations : pc[i] \in Crit
    /\ \A i \in Invocations :
         /\ pc[i] = "om_acquire" /\ processing_lock = Free
            => ENABLED (on_message_acquire(i, Payloads) /\ pc'[i] = "pm_connected")
         /\ pc[i] = "pm_publish"
            => ENABLED (publish_to_victron(i) /\ victron_pub'.result = "ok")

\* C14: per-message errors are isolated: after a payload decode failure, an
\* exception in the field mapping or a publish failure the processing lock
\* is released and the process keeps running, so the next valid message
\* arriving while the destination is connected is transformed and published
C14_ErrorsIsolated == []NextMessageServed /\ [][FailureReleases]_vars

\* a message whose mapping raised is at the release while the next message
\* has arrived and waits for the lock
C14_Witness ==
    /\ pc[1] = "om_release" /\ "error" \in effects[1] /\ Len(meter_data[1]) = 1
    /\ pc[2] = "om_acquire" /\ victron_mqtt_connected

\* once the flag of line 449 is set, no step of the monitor starts a
\* suspension, changes victron_publishing_active or publishes
NoSuspensionAfterFlag ==
    shutdown_in_progress
    => /\ mon' # mon => mon' \notin SuspendPath \ {"release"}
       /\ mon' # mon => victron_publishing_active' = victron_publishing_active
       /\ victron_pub'.by # "monitor"

\* C15: once shutdown has begun (shutdown_in_progress is set) the monitor
\* performs no further suspension: no change of publishingActive and no
\* disconnected-status publish after the flag was set
C15_NoSuspensionAfterShutdown == [][NoSuspensionAfterFlag]_vars

\* the steps of shutdown in the order the claim gives them
ShutdownOrder ==
    \* a loop is stopped or a session closed only after both publishes
    /\ loops' # loops \/ sessions' # sessions
       => published.offline >= 1 /\ published.disconnected >= 1
    \* the publishes of shutdown are made with both loops running and both
    \* sessions open
    /\ source_pub'.by = "shutdown" \/ victron_pub'.by = "shutdown"
       => loops = {"victron", "source"} /\ sessions = {"victron", "source"}
    \* the record for the destination is the disconnected status
    /\ victron_pub'.by = "shutdown" => DisconnectedStatus(victron_pub', index)

\* C16: every shutdown publishes the offline status to the source status
\* topic and a final disconnected status record (/Connected=0) to the
\* destination, both before either network loop is stopped and before either
\* session is disconnected
C16_ShutdownPublishesFirst == [][ShutdownOrder]_vars

\* C17, the steps that echo or log
EchoSteps ==
    /\ \A i \in Invocations :
         pc[i] = "pm_echo" /\ Moved(i)
         => \* the echo is made exactly when index mod 256 = 0
            /\ source_pub'.by = "process_message" <=> index % 256 = 0
            /\ source_pub'.by = "process_message"
               => source_pub'.retain /\ source_pub'.n = index
            /\ "echo" \in effects'[i] <=> index % 256 = 0
            \* the full payload is logged exactly when index = 0
            /\ "first_log" \in effects'[i] <=> index = 0
    \* nothing else publishes the echo
    /\ source_pub'.by = "process_message"
       => \E i \in Invocations : pc[i] = "pm_echo" /\ Moved(i)
    \* a message that got as far as the echo is counted next, so that no
    \* second message is processed with the same index
    /\ \A i \in Invocations :
         pc[i] = "pm_store" /\ Moved(i) => index' = index + 1
    /\ index' >= index

\* C17, state part: a message past the echo is always counted
EchoThenCounted ==
    \A i \in Invocations :
        /\ pc[i] = "pm_incr" => ENABLED process_message_incr(i)
        /\ pc[i] = "pm_store" => ENABLED process_message_store(i)
        /\ "first_log" \in effects[i]
           => \/ index = 0 /\ pc[i] \in {"pm_incr", "pm_store"}
              \/ index = 1 /\ pc[i] = "om_release"

\* C17: a retained status echo is published to the source status topic for
\* exactly the processed messages whose index satisfies index mod 256 = 0
\* (index 0 included) and for no other message; the full-payload log happens
\* only for index 0, hence at most once in the life of the process
C17_EchoEvery256 == []EchoThenCounted /\ [][EchoSteps]_vars

\* the echo of message #256
C17_Witness ==
    /\ source_pub.by = "process_message" /\ source_pub.n = 256
    /\ pc[1] = "pm_incr" /\ "first_log" \notin effects[1]

\* C18: every normal update is published non-retained, every explicit
\* disconnected-status notice (monitor suspension, shutdown) is published
\* with retain = true and so is the registered will of the destination
\* client; no normal update is a retained publish, so none replaces the
\* retained message on the destination topic
C18_RetainOnlyForStatus ==
    /\ NormalUpdate(victron_pub) => ~victron_pub.retain
    /\ victron_pub.retain => victron_pub.by \in {"monitor", "shutdown"}
    /\ victron_pub.by \in {"monitor", "shutdown"}
       => /\ victron_pub.retain
          /\ victron_pub.dbus_data[1].path = "/Connected"
          /\ victron_pub.dbus_data[1].value.n = 0
    /\ will_msg.retain
    /\ will_msg.dbus_data[1].path = "/Connected" /\ will_msg.dbus_data[1].value.n = 0
    /\ Len(will_msg.dbus_data) = 1

\* shutdown publishes the retained notice after a normal update went out
C18_Witness ==
    /\ victron_pub.by = "shutdown" /\ victron_pub.retain
    /\ index = 1 /\ published.disconnected = 1

\* C19: in every reachable state, under every interleaving of the source
\* callbacks, the destination callbacks and the monitor, publishingActive =
\* true implies destinationMqttConnected = true; stated here for the states
\* in which the destination callback thread is not between its two
\* assignments (lines 176-177, 190-191)
C19_ActiveImpliesConnected ==
    vic = "idle" => (victron_publishing_active => victron_mqtt_connected)

\* C20, step part: index changes only in the store of line 402, made by the
\* context that holds processing_lock, and by exactly 1; the monitor, the
\* destination callbacks and shutdown stand still in that step
IndexWrites ==
    /\ index' # index
       => /\ \E i \in Invocations :
               /\ processing_lock = i
               /\ pc[i] = "pm_store" /\ pc'[i] = "om_release"
          /\ index' = index + 1
          /\ UNCHANGED <<mon, vic, main, processing_lock>>
    /\ \A i \in Invocations :
         pc[i] = "pm_store" /\ Moved(i) => index' = index + 1

\* C20, state part: between the read and the store of line 402 nobody else
\* writes index, and an invocation is counted exactly when process_message
\* ran to completion
IndexCounted ==
    \A i \in Invocations :
        /\ pc[i] = "pm_store" => loaded[i] = index /\ processing_lock = i
        /\ pc[i] = "om_release"
           => ("index" \in effects[i] <=> "publish" \in effects[i])

\* C20: index is written only by the thread that holds the processing lock;
\* each on_message invocation that runs process_message to completion
\* increases it by exactly 1 and no other operation (monitor tick, connect or
\* disconnect callback, suspension, shutdown) changes it, so no increment is
\* lost or duplicated
C20_IndexWrittenUnderLock == []IndexCounted /\ [][IndexWrites]_vars

\* an invocation has been counted while an overlapping one is on its way to
\* the lock
C20_Witness ==
    /\ pc[1] = "om_release" /\ "index" \in effects[1] /\ index = 1
    /\ pc[2] \in {"om_conn2", "om_acquire"}

====
